---- MODULE Spec2Model ----
(***************************************************************************)
(* A model of rustbot's src/main.rs: the reply formatter                   *)
(* (reply_potentially_long_text), the code block extractor (extract_code), *)
(* the help menu (main_menu) with the command registrations of app(), and  *)
(* the event handlers of `impl EventHandler for Events`.                   *)
(***************************************************************************)
EXTENDS Integers, Sequences, FiniteSets, TLC

VARIABLES
    \* ---- reply_potentially_long_text: arguments, position, locals, result
    text_body, text_end, truncation_msg, overflow_checks,
    fmt_pc, branch, cut_off_point, kept, msg,
    \* ---- extract_code: argument, position, result
    input, ext_pc, extracted,
    \* ---- app(), Commands::execute and main_menu: the configuration, the
    \* requester, the role store's answers, the command under dispatch and
    \* what came of it
    config, requester_is_mod, store_up, menu_pc, command, handler_ran, reply,
    listing,
    \* ---- impl EventHandler for Events: the CommandHistory map behind
    \* cx.data, the holder of its lock, the event tasks, the bot's response
    \* messages (a response's id is its index) and the ready events seen
    history, lock, tasks, responses, readies

fmt_vars == <<text_body, text_end, truncation_msg, overflow_checks,
              fmt_pc, branch, cut_off_point, kept, msg>>

ext_vars == <<input, ext_pc, extracted>>

menu_vars == <<config, requester_is_mod, store_up, menu_pc, command,
               handler_ran, reply, listing>>

ev_vars == <<history, lock, tasks, responses, readies>>

vars == <<fmt_vars, ext_vars, menu_vars, ev_vars>>

(***************************************************************************)
(* Strings.  A &str is a sequence of runs [u |-> unit, n |-> count]: the   *)
(* unit (a short sequence of characters) repeated n times.  The text is    *)
(* the concatenation of the runs; \o is the concatenation of format!.      *)
(* Lengths and indices are UTF-8 byte counts, as str::len measures them.   *)
(***************************************************************************)
None == [some |-> FALSE]

Some(x) == [some |-> TRUE, val |-> x]

Ok(x) == [ok |-> TRUE, val |-> x]

Err(e) == [ok |-> FALSE, err |-> e]

\* no call of extract_code is under way
ExtIdle == input = <<>> /\ ext_pc = "idle" /\ extracted = None

\* no command is under dispatch
MenuIdle ==
    /\ config = [crates |-> FALSE, eval |-> FALSE]
    /\ requester_is_mod = FALSE
    /\ store_up = <<>>
    /\ menu_pc = "idle" /\ command = "" /\ handler_ran = FALSE
    /\ reply = None /\ listing = None

\* the map of a connected bot on which no event has been handled: the state
\* the first ready event leaves (IndexMap::new(), line 375)
EventsIdle ==
    /\ history = <<>> /\ lock = 0 /\ tasks = <<>> /\ responses = <<>>
    /\ readies = 0

\* the backtick character U+0060 (a string of the model cannot hold it)
BQ == "bq"

Run(u, n) == IF n = 0 \/ u = <<>> THEN <<>> ELSE << [u |-> u, n |-> n] >>

Lit(u) == Run(u, 1)

\* UTF-8 width of a character: "e2" stands for a 2-byte character (such as
\* e-acute), "e3" for a 3-byte one (such as the euro sign); the rest are ASCII.
Width(c) == CASE c = "e2" -> 2 [] c = "e3" -> 3 [] OTHER -> 1

RECURSIVE ULen(_)
ULen(u) == IF u = <<>> THEN 0 ELSE Width(Head(u)) + ULen(Tail(u))

RECURSIVE StrLen(_)
\* str::len
StrLen(s) == IF s = <<>> THEN 0 ELSE Head(s).n * ULen(Head(s).u) + StrLen(Tail(s))

RECURSIVE UnitBoundary(_, _)
\* whether byte offset k (0 <= k < ULen(u)) starts a character of the unit
UnitBoundary(u, k) ==
    IF k = 0 THEN TRUE
    ELSE IF k < Width(Head(u)) THEN FALSE
    ELSE UnitBoundary(Tail(u), k - Width(Head(u)))

RECURSIVE IsCharBoundary(_, _)
\* str::is_char_boundary: 0 and len are boundaries, anything past len is not
IsCharBoundary(s, index) ==
    IF index = 0 THEN TRUE
    ELSE IF s = <<>> THEN FALSE
    ELSE LET l == Head(s).n * ULen(Head(s).u) IN
         IF index >= l THEN IsCharBoundary(Tail(s), index - l)
         ELSE UnitBoundary(Head(s).u, index % ULen(Head(s).u))

RECURSIVE UPrefix(_, _)
\* the characters of the unit that lie before byte offset k (a boundary)
UPrefix(u, k) ==
    IF k = 0 THEN <<>> ELSE <<Head(u)>> \o UPrefix(Tail(u), k - Width(Head(u)))

RECURSIVE Slice(_, _)
\* &s[..k] for a character boundary k <= len
Slice(s, k) ==
    IF k = 0 THEN <<>>
    ELSE LET r == Head(s)
             w == ULen(r.u)
             l == r.n * w IN
         IF k >= l THEN <<r>> \o Slice(Tail(s), k - l)
         ELSE Run(r.u, k \div w) \o Lit(UPrefix(r.u, k % w))

\* the last character of a non-empty string
LastChar(s) == LET u == s[Len(s)].u IN u[Len(u)]

RECURSIVE UNewlines(_)
UNewlines(u) ==
    IF u = <<>> THEN 0
    ELSE (IF Head(u) = "\n" THEN 1 ELSE 0) + UNewlines(Tail(u))

RECURSIVE Newlines(_)
Newlines(s) ==
    IF s = <<>> THEN 0 ELSE Head(s).n * UNewlines(Head(s).u) + Newlines(Tail(s))

\* str::lines().count(): every "\n" ends a line, and a non-empty rest after
\* the last "\n" is one more line.  (The alphabet holds no carriage return.)
LinesCount(s) ==
    Newlines(s) + (IF s # <<>> /\ LastChar(s) # "\n" THEN 1 ELSE 0)

RECURSIVE UBeforeNewline(_, _)
\* the characters of the unit before its j-th "\n" (j >= 1)
UBeforeNewline(u, j) ==
    IF Head(u) = "\n"
    THEN (IF j = 1 THEN <<>> ELSE <<Head(u)>> \o UBeforeNewline(Tail(u), j - 1))
    ELSE <<Head(u)>> \o UBeforeNewline(Tail(u), j)

RECURSIVE TakeLines(_, _)
\* lines().take(k).collect::<Vec<_>>().join("\n") for a text of more than k
\* lines (k >= 1): the text before its k-th "\n"
TakeLines(s, k) ==
    LET r == Head(s)
        c == UNewlines(r.u) IN
    IF c > 0 /\ r.n * c >= k
    THEN Run(r.u, (k - 1) \div c) \o Lit(UBeforeNewline(r.u, ((k - 1) % c) + 1))
    ELSE <<r>> \o TakeLines(Tail(s), k - r.n * c)

(***************************************************************************)
(* reply_potentially_long_text                                             *)
(***************************************************************************)
DISCORD_LIMIT == 2000

MAX_OUTPUT_LINES == 45

\* 2000 - text_end.len() - truncation_msg.len() goes below zero
Underflows(end, trunc) == DISCORD_LIMIT - StrLen(end) - StrLen(trunc) < 0

\* let available_space = 2000 - text_end.len() - truncation_msg.len();
\* A result d < 0 stands for the usize 2^64 + d that a build without overflow
\* checks computes (2^64 itself is beyond the integers of the model checker);
\* it is greater than the length of any string, which is at most 2^63 - 1.
AvailableSpace(end, trunc) == DISCORD_LIMIT - StrLen(end) - StrLen(trunc)

\* index > s.len(), for an index as AvailableSpace gives it
PastEnd(s, index) == index < 0 \/ index > StrLen(s)

RECURSIVE CutOffPoint(_, _)
\* while !text_body.is_char_boundary(cut_off_point) { cut_off_point -= 1; }
\* No index past len is a boundary, so from there the loop counts down to len.
CutOffPoint(body, point) ==
    IF PastEnd(body, point) THEN CutOffPoint(body, StrLen(body))
    ELSE IF IsCharBoundary(body, point) THEN point
    ELSE CutOffPoint(body, point - 1)

\* if text_body.len() + text_end.len() > 2000
TooLong(body, end) == StrLen(body) + StrLen(end) > DISCORD_LIMIT

\* else if text_body.lines().count() > MAX_OUTPUT_LINES
TooManyLines(body) == LinesCount(body) > MAX_OUTPUT_LINES

\* which arm of the if / else if / else runs
Branch(body, end) ==
    IF TooLong(body, end) THEN "length"
    ELSE IF TooManyLines(body) THEN "lines"
    ELSE "none"

\* the part of text_body that goes into the message
KeptBody(body, end, trunc) ==
    CASE Branch(body, end) = "length" ->
            Slice(body, CutOffPoint(body, AvailableSpace(end, trunc)))
      [] Branch(body, end) = "lines" -> TakeLines(body, MAX_OUTPUT_LINES)
      [] OTHER -> body

\* a slip in lines 279-284 and 286-295: the last two arguments of format!
\* are swapped
FormatMsgMarkerFirst(body, end, trunc) ==
    IF Branch(body, end) = "none"
    THEN KeptBody(body, end, trunc) \o end
    ELSE KeptBody(body, end, trunc) \o trunc \o end

\* let msg = if .. { format!("{}{}{}", ..) } else if .. { format!("{}{}{}", ..) }
\*           else { format!("{}{}", text_body, text_end) };
FormatMsg(body, end, trunc) ==
    IF Branch(body, end) = "none"
    THEN KeptBody(body, end, trunc) \o end
    ELSE KeptBody(body, end, trunc) \o end \o trunc

\* The call returns normally and hands msg to api::send_reply.
ReplyPotentiallyLongText ==
    /\ fmt_pc = "call"
    /\ ~(TooLong(text_body, text_end) /\ Underflows(text_end, truncation_msg)
         /\ overflow_checks)
    /\ branch' = Branch(text_body, text_end)
    /\ cut_off_point' =
          IF TooLong(text_body, text_end)
          THEN CutOffPoint(text_body, AvailableSpace(text_end, truncation_msg))
          ELSE -1
    /\ kept' = KeptBody(text_body, text_end, truncation_msg)
    /\ msg' = FormatMsg(text_body, text_end, truncation_msg)
    /\ fmt_pc' = "sent"
    /\ UNCHANGED <<text_body, text_end, truncation_msg, overflow_checks>>
    /\ UNCHANGED <<ext_vars, menu_vars, ev_vars>>

\* The subtraction of line 272 panics ("attempt to subtract with overflow")
\* in a build with overflow checks: no message is produced.
ReplyPanics ==
    /\ fmt_pc = "call"
    /\ TooLong(text_body, text_end)
    /\ Underflows(text_end, truncation_msg)
    /\ overflow_checks
    /\ fmt_pc' = "panicked"
    /\ UNCHANGED <<text_body, text_end, truncation_msg, overflow_checks,
                   branch, cut_off_point, kept, msg>>
    /\ UNCHANGED <<ext_vars, menu_vars, ev_vars>>

\* ---- the inputs of the formatter
Slack == 1

Units == { <<"a">>, <<"\n">>, <<"e2">>, <<"e3">>, <<"a", "\n">> }

\* the run lengths tried: within slack of 0, of the line limit and of the
\* length limit, and two lengths between and beyond (1900, 2100)
Counts(slack) ==
    (0 .. slack)
    \cup ((MAX_OUTPUT_LINES - slack) .. (MAX_OUTPUT_LINES + slack))
    \cup {1900}
    \cup ((DISCORD_LIMIT - slack) .. (DISCORD_LIMIT + slack))
    \cup {2100}

\* the bodies tried: two runs
Bodies(slack) ==
    { Run(u1, n1) \o Run(u2, n2) : u1 \in Units, n1 \in Counts(slack),
                                   u2 \in Units, n2 \in Counts(slack) }

CodeFenceEnd == Lit(<<"\n", BQ, BQ, BQ>>)

TRUNCATED == Lit(<<"[", "T", "R", "U", "N", "C", "A", "T", "E", "D", "]">>)

Closings == { <<>>, CodeFenceEnd, Run(<<"a">>, 1995) }

Markers == { <<>>, TRUNCATED }

FmtIdle ==
    /\ text_body = <<>> /\ text_end = <<>> /\ truncation_msg = <<>>
    /\ overflow_checks = FALSE
    /\ fmt_pc = "idle" /\ branch = "none" /\ cut_off_point = -1
    /\ kept = <<>> /\ msg = <<>>

InitFmt ==
    /\ ExtIdle /\ MenuIdle /\ EventsIdle
    /\ text_body \in Bodies(Slack)
    /\ text_end \in Closings
    /\ truncation_msg \in Markers
    /\ overflow_checks \in BOOLEAN
    /\ fmt_pc = "call" /\ branch = "none" /\ cut_off_point = -1
    /\ kept = <<>> /\ msg = <<>>

NextFmt == ReplyPotentiallyLongText \/ ReplyPanics

SpecFmt == InitFmt /\ [][NextFmt]_vars

\* The calls whose closing text and marker fit into a message together, as
\* in the example of the doc comment (lines 251-260): line 272 cannot go
\* below zero there, so no call panics.
InitFmtFit == InitFmt /\ ~Underflows(text_end, truncation_msg)

NextFmtFit == ReplyPotentiallyLongText

SpecFmtFit == InitFmtFit /\ [][NextFmtFit]_vars

(***************************************************************************)
(* extract_code.  Its argument is a plain sequence of characters; indices  *)
(* are byte offsets, as str::find, str::len and str::get use them.         *)
(***************************************************************************)
\* char::is_whitespace, on the characters of the model
IsWhitespace(c) == c \in {" ", "\n"}

RECURSIVE TrimStart(_)
TrimStart(s) ==
    IF s # <<>> /\ IsWhitespace(Head(s)) THEN TrimStart(Tail(s)) ELSE s

RECURSIVE TrimEnd(_)
TrimEnd(s) ==
    IF s # <<>> /\ IsWhitespace(s[Len(s)])
    THEN TrimEnd(SubSeq(s, 1, Len(s) - 1)) ELSE s

\* str::trim
Trim(s) == TrimEnd(TrimStart(s))

\* str::starts_with
StartsWith(s, pat) == Len(pat) <= Len(s) /\ SubSeq(s, 1, Len(pat)) = pat

\* str::ends_with
EndsWith(s, pat) ==
    Len(pat) <= Len(s) /\ SubSeq(s, Len(s) - Len(pat) + 1, Len(s)) = pat

RECURSIVE FindFrom(_, _)
FindFrom(s, offset) ==
    IF s = <<>> THEN None
    ELSE IF IsWhitespace(Head(s)) THEN Some(offset)
    ELSE FindFrom(Tail(s), offset + Width(Head(s)))

\* a slip in line 319: .unwrap_or(3) in place of ?, the code taken to start
\* right after the opening fence when no whitespace is found
FindWhitespaceOrFence(s) ==
    IF FindFrom(s, 0).some THEN FindFrom(s, 0) ELSE Some(3)

\* input.find(char::is_whitespace): the byte offset of the first whitespace
FindWhitespace(s) == FindFrom(s, 0)

RECURSIVE SkipBytes(_, _)
\* the characters from byte offset k (a boundary) on
SkipBytes(s, k) == IF k = 0 THEN s ELSE SkipBytes(Tail(s), k - Width(Head(s)))

\* str::get(from..to): None unless from <= to <= len and both are boundaries
Get(s, from, to) ==
    IF /\ from <= to /\ to <= ULen(s)
       /\ (from = ULen(s) \/ UnitBoundary(s, from))
       /\ (to = ULen(s) \/ UnitBoundary(s, to))
    THEN Some(SkipBytes(UPrefix(s, to), from))
    ELSE None

Fence == <<BQ, BQ, BQ>>

\* a slip in line 320: the closing fence taken to be two bytes long
CodeEndPointShortFence(trimmed) == ULen(trimmed) - 2

\* let code_end_point = input.len() - 3;
CodeEndPoint(trimmed) == ULen(trimmed) - 3

\* the body of inner() after `let input = input.trim();`
InnerTrimmed(trimmed) ==
    IF StartsWith(trimmed, Fence) /\ EndsWith(trimmed, Fence)
    THEN LET code_starting_point == FindWhitespace(trimmed) IN
         IF ~code_starting_point.some THEN None
         ELSE LET got == Get(trimmed, code_starting_point.val, CodeEndPoint(trimmed)) IN
              IF ~got.some THEN None ELSE Some(Trim(got.val))
    ELSE IF StartsWith(trimmed, <<BQ>>) /\ EndsWith(trimmed, <<BQ>>)
    THEN LET got == Get(trimmed, 1, ULen(trimmed) - 1) IN
         IF ~got.some THEN None ELSE Some(Trim(got.val))
    ELSE None

Inner(text) == InnerTrimmed(Trim(text))

\* inner(input).ok_or(Error::MissingCodeblock)
ExtractCodeOf(text) ==
    IF Inner(text).some THEN Ok(Inner(text).val) ELSE Err("MissingCodeblock")

ExtractCode ==
    /\ ext_pc = "call"
    /\ extracted' = ExtractCodeOf(input)
    /\ ext_pc' = "done"
    /\ UNCHANGED input
    /\ UNCHANGED <<fmt_vars, menu_vars, ev_vars>>

\* ---- the inputs of extract_code: padding, backticks, a middle, backticks,
\* padding
MaxMiddle == 5

MiddleChars == {"a", "e2", " ", "\n"}

RECURSIVE Strings(_)
\* the strings over MiddleChars of at most k characters
Strings(k) ==
    IF k = 0 THEN { <<>> }
    ELSE Strings(k - 1)
         \cup { <<c>> \o t : c \in MiddleChars,
                             t \in { x \in Strings(k - 1) : Len(x) = k - 1 } }

Ticks(k) == [i \in 1 .. k |-> BQ]

TickCounts == 0 .. 4

Inputs(k) ==
    { lead \o Ticks(k1) \o mid \o Ticks(k2) \o trail :
        lead \in { <<>>, <<" ">> }, k1 \in TickCounts, mid \in Strings(k),
        k2 \in TickCounts, trail \in { <<>>, <<"\n">> } }

InitExtract ==
    /\ FmtIdle /\ MenuIdle /\ EventsIdle
    /\ input \in Inputs(MaxMiddle)
    /\ ext_pc = "call"
    /\ extracted = None

NextExtract == ExtractCode

SpecExtract == InitExtract /\ [][NextExtract]_vars

(***************************************************************************)
(* app(): the commands and help entries it registers, in order; the        *)
(* dispatch of one command; main_menu.                                     *)
(***************************************************************************)
Entry(cmd, desc, guard) == [cmd |-> cmd, desc |-> desc, guard |-> guard]

\* if config.crates { .. }
CratesEntries ==
    << Entry("crate", "Lookup crates on crates.io", "always"),
       Entry("docs", "Lookup documentation", "always") >>

\* if config.eval { .. }
EvalEntries ==
    << Entry("play", "Compile and run rust code in a playground", "always"),
       Entry("eval", "Evaluate a single rust expression", "always"),
       Entry("miri", "Run code and detect undefined behavior using Miri", "always"),
       Entry("expand", "Expand macros to their raw desugared form", "always"),
       Entry("clippy", "Catch common mistakes using the Clippy linter", "always"),
       Entry("fmt", "Format code using rustfmt", "always") >>

CommonEntries ==
    << Entry("go", "Evaluates Go code", "always"),
       Entry("godbolt", "View assembly using Godbolt", "always"),
       Entry("cleanup", "Deletes the bot's messages for cleanup", "always"),
       Entry("source", "Links to the bot GitHub repo", "always") >>

\* cmds.add_protected(.., api::is_mod); cmds.help_protected(.., api::is_mod);
ProtectedEntries ==
    << Entry("slowmode", "Set slowmode on a channel", "is_mod"),
       Entry("kick", "Kick a user from the guild", "is_mod"),
       Entry("ban", "Temporarily ban a user from the guild", "is_mod"),
       Entry("CoC", "Post the code of conduct message to a channel", "is_mod") >>

\* let menu = cmds.take_menu().unwrap(): the help entries in the order of
\* their registration
Menu(cfg) ==
    (IF cfg.crates THEN CratesEntries ELSE <<>>)
    \o (IF cfg.eval THEN EvalEntries ELSE <<>>)
    \o CommonEntries \o ProtectedEntries

ProtectedNames == { ProtectedEntries[i].cmd : i \in 1 .. Len(ProtectedEntries) }

\* the commands registered with add / add_protected, "help" aside
Registered(cfg) == { Menu(cfg)[i].cmd : i \in 1 .. Len(Menu(cfg)) }

\* a slip in line 217: CoC registered with add instead of add_protected
GuardOfWithOpenCoC(cmd) ==
    IF cmd \in ProtectedNames \ {"CoC"} THEN "is_mod" ELSE "always"

\* the guard a command was registered with
GuardOf(cmd) == IF cmd \in ProtectedNames THEN "is_mod" ELSE "always"

\* api::is_mod for the requester: the role id of "mod" is looked up in the
\* role store on every call; the lookup can fail
IsMod(cmd) ==
    IF store_up[cmd] THEN Ok(requester_is_mod) ELSE Err("Unknown")

\* (guard)(&args), evaluated for the entry or command cmd
EvalGuard(guard, cmd) == IF guard = "is_mod" THEN IsMod(cmd) ELSE Ok(TRUE)

\* impl Display for Error (the first line of the MissingCodeblock text; the
\* backticks around fn main are left out)
ErrorText(e) ==
    CASE e = "MissingCodeblock" -> "Missing code block. Please use the following markdown:"
      [] e = "NoCratesFound" -> "No crates found"
      [] e = "MissingPermissions" -> "You are not allowed to use this command"
      [] e = "EvalWithFnMain" -> "Code passed to ?eval should not contain fn main"
      [] OTHER -> "Unexpected error (..)"

\* a slip in line 339: an entry hidden only when its guard denies
ShownUnlessDenied(verdict) == verdict # Ok(FALSE)

\* if let Ok(true) = (guard)(&args)
Shown(verdict) == verdict = Ok(TRUE)

\* "\t?{cmd:<12}{desc}\n"
MenuLine(cmd, desc) == [cmd |-> cmd, desc |-> desc]

RECURSIVE MenuLines(_)
\* for (base_cmd, (description, guard)) in commands { .. }
MenuLines(commands) ==
    IF commands = <<>> THEN <<>>
    ELSE LET e == Head(commands) IN
         (IF Shown(EvalGuard(e.guard, e.cmd))
          THEN << MenuLine(e.cmd, e.desc) >> ELSE <<>>)
         \o MenuLines(Tail(commands))

\* a slip in line 344: the help entry written before the loop of line 338
MainMenuHelpFirst(commands) ==
    [ header |-> "Commands:\n",
      entries |-> << MenuLine("help", "This menu") >> \o MenuLines(commands),
      footer |-> "\nType ?help command for more info on a command.\n\nAdditional Info:\n\tYou can edit your message to the bot and the bot will edit its response." ]

\* main_menu: the header, the shown entries, the help entry, the footer
MainMenu(commands) ==
    [ header |-> "Commands:\n",
      entries |-> MenuLines(commands) \o << MenuLine("help", "This menu") >>,
      footer |-> "\nType ?help command for more info on a command.\n\nAdditional Info:\n\tYou can edit your message to the bot and the bot will edit its response." ]

\* the handler of "help" (lines 226-231), run by the dispatcher; its guard
\* always allows
Help(body_is_empty) ==
    /\ menu_pc = "call"
    /\ command' = "help"
    /\ handler_ran' = TRUE
    /\ listing' = IF body_is_empty THEN Some(MainMenu(Menu(config))) ELSE None
    /\ menu_pc' = "done"
    /\ UNCHANGED <<config, requester_is_mod, store_up, reply>>
    /\ UNCHANGED <<fmt_vars, ext_vars, ev_vars>>

HandlerResults ==
    { Ok("unit"), Err("MissingCodeblock"), Err("NoCratesFound"),
      Err("EvalWithFnMain"), Err("Unknown") }

\* what the dispatcher does with the verdict of the guard and, when the
\* handler ran, with its result: the handler runs only if the guard allows;
\* a denial is Error::MissingPermissions; every error is rendered and sent
\* as a reply
Dispatch(verdict, result) ==
    IF verdict = Ok(TRUE)
    THEN [ran |-> TRUE,
          reply |-> IF result.ok THEN None ELSE Some(ErrorText(result.err))]
    ELSE IF verdict = Ok(FALSE)
    THEN [ran |-> FALSE, reply |-> Some(ErrorText("MissingPermissions"))]
    ELSE [ran |-> FALSE, reply |-> Some(ErrorText(verdict.err))]

\* Commands::execute for a registered command other than "help"
Execute(cmd, result) ==
    /\ menu_pc = "call"
    /\ cmd \in Registered(config)
    /\ command' = cmd
    /\ LET d == Dispatch(EvalGuard(GuardOf(cmd), cmd), result) IN
       /\ handler_ran' = d.ran
       /\ reply' = d.reply
    /\ menu_pc' = "done"
    /\ UNCHANGED <<config, requester_is_mod, store_up, listing>>
    /\ UNCHANGED <<fmt_vars, ext_vars, ev_vars>>

InitMenu ==
    /\ FmtIdle /\ ExtIdle /\ EventsIdle
    /\ config \in [crates : BOOLEAN, eval : BOOLEAN]
    /\ requester_is_mod \in BOOLEAN
    /\ store_up \in [ProtectedNames -> BOOLEAN]
    /\ menu_pc = "call" /\ command = "" /\ handler_ran = FALSE
    /\ reply = None /\ listing = None

NextMenu ==
    \/ \E b \in BOOLEAN : Help(b)
    \/ \E c \in Registered(config), r \in HandlerResults : Execute(c, r)

SpecMenu == InitMenu /\ [][NextMenu]_vars

(***************************************************************************)
(* The event handlers.  Every event is handled by a task of its own; the   *)
(* tasks run concurrently and share the CommandHistory map behind the lock *)
(* of cx.data.  A task is [kind, msg, channel, pc, response_id, sent,      *)
(* edited, calls, before, after]: the event, the invoking message it is    *)
(* about and the channel it names, its position, the id it found in the    *)
(* map, the id of the response it sent, the id it edited, its              *)
(* delete_message calls, and (for a delete event) the map as it was when   *)
(* the lock was taken and after the removal.                               *)
(***************************************************************************)
MaxEvents == 3

MaxReadies == 1

MessageIds == {"m1", "m2"}

\* the channel an invoking message was posted in
ChannelOf(m) == IF m = "m1" THEN "c1" ELSE "c2"

\* the task of an event: its position, the locals of its handler, the calls
\* it made, what its fallible call returned (result), whether the handler
\* wrote the error to the log, and the value the handler returned with
NewTask(kind, m) ==
    [kind |-> kind, msg |-> m, channel |-> ChannelOf(m),
     pc |-> IF kind = "delete" THEN "start" ELSE "lookup",
     response_id |-> None, sent |-> None, edited |-> None,
     calls |-> <<>>, before |-> None, after |-> None,
     result |-> None, logged |-> FALSE, returned |-> None]

\* a slip in lines 393-395: the error of replay_message is dropped unlogged
HandlerLogsNothing(kind, result) == FALSE

\* if let Err(e) = .. { error!("{}", e); } of message_update (lines 393-395),
\* reaction_add (408-410) and guild_ban_removal (414-416); message (line 383)
\* and message_delete (line 403) log no error
HandlerLogs(kind, result) ==
    kind \in {"update", "reaction", "ban_removal"} /\ ~result.ok

\* a handler of Events returns (): the task of the event ends normally
\* whatever its fallible call returned
Returned(t, result) ==
    [tasks[t] EXCEPT !.pc = "done",
                     !.result = Some(result),
                     !.logged = HandlerLogs(tasks[t].kind, result),
                     !.returned = Some("unit")]

Tracked(m) == m \in DOMAIN history

\* a slip in line 401: history.get in place of history.remove
RemovedNothing(h, m) == h

\* history.remove(&message_id), the map it leaves
Removed(h, m) == [k \in (DOMAIN h) \ {m} |-> h[k]]

\* history.insert(command_id, response.id)
Inserted(h, m, id) == [k \in (DOMAIN h) \cup {m} |-> IF k = m THEN id ELSE h[k]]

\* whether a new-message event for m has arrived (a message is posted once)
Posted(m) == \E t \in 1 .. Len(tasks) : tasks[t].kind = "message" /\ tasks[t].msg = m

\* Events::message (line 382), Events::message_update (line 386) and
\* Events::message_delete (line 398) are entered: the event is handed to a
\* task.  An edit or a delete is of a message that was posted.
Arrive(kind, m) ==
    /\ Len(tasks) < MaxEvents
    /\ IF kind = "message" THEN ~Posted(m) ELSE Posted(m)
    /\ tasks' = Append(tasks, NewTask(kind, m))
    /\ UNCHANGED <<history, lock, responses, readies>>
    /\ UNCHANGED <<fmt_vars, ext_vars, menu_vars>>

IsDispatch(t) == tasks[t].kind \in {"message", "update"}

\* self.cmds.execute / command_history::replay_message end without a reply:
\* the text is no command, the edit is not replayed, or the handler sends
\* nothing
NoReply(t) ==
    /\ IsDispatch(t) /\ tasks[t].pc = "lookup"
    /\ tasks' = [tasks EXCEPT ![t] = Returned(t, Ok("unit"))]
    /\ UNCHANGED <<history, lock, responses, readies>>
    /\ UNCHANGED <<fmt_vars, ext_vars, menu_vars>>

\* a slip in send_reply: the record of the invoking message is not consulted
LookupResultAlwaysNew(t) == [pc |-> "say", response_id |-> None, lock |-> 0]

\* api::send_reply looks the invoking message up in the map, under the lock.
\* With a record it goes on to edit the recorded response, holding the lock
\* (lookup+edit); without one it goes on to send a new message.
LookupResult(t) ==
    IF Tracked(tasks[t].msg)
    THEN [pc |-> "edit", response_id |-> Some(history[tasks[t].msg]), lock |-> t]
    ELSE [pc |-> "say", response_id |-> None, lock |-> 0]

Lookup(t) ==
    /\ IsDispatch(t) /\ tasks[t].pc = "lookup"
    /\ lock = 0
    /\ LET r == LookupResult(t) IN
       /\ tasks' = [tasks EXCEPT ![t].pc = r.pc, ![t].response_id = r.response_id]
       /\ lock' = r.lock
    /\ UNCHANGED <<history, responses, readies>>
    /\ UNCHANGED <<fmt_vars, ext_vars, menu_vars>>

\* edit_message on the recorded response, which succeeds or fails; the lock
\* is released afterward
Edit(t, succeeds) ==
    /\ IsDispatch(t) /\ tasks[t].pc = "edit"
    /\ tasks' = [tasks EXCEPT
                    ![t] = [Returned(t, IF succeeds THEN Ok("unit") ELSE Err("edit"))
                                EXCEPT !.edited = tasks[t].response_id]]
    /\ lock' = 0
    /\ UNCHANGED <<history, responses, readies>>
    /\ UNCHANGED <<fmt_vars, ext_vars, menu_vars>>

\* the reply is sent as a new message; the platform gives it a fresh id
Say(t) ==
    /\ IsDispatch(t) /\ tasks[t].pc = "say"
    /\ responses' = Append(responses, [msg |-> tasks[t].msg, alive |-> TRUE])
    /\ tasks' = [tasks EXCEPT ![t].pc = "insert",
                              ![t].sent = Some(Len(responses) + 1)]
    /\ UNCHANGED <<history, lock, readies>>
    /\ UNCHANGED <<fmt_vars, ext_vars, menu_vars>>

\* sending the reply fails: nothing is recorded
SayFails(t) ==
    /\ IsDispatch(t) /\ tasks[t].pc = "say"
    /\ tasks' = [tasks EXCEPT ![t] = Returned(t, Err("send"))]
    /\ UNCHANGED <<history, lock, responses, readies>>
    /\ UNCHANGED <<fmt_vars, ext_vars, menu_vars>>

\* insert on send: the id of the sent response is recorded, under the lock
Insert(t) ==
    /\ IsDispatch(t) /\ tasks[t].pc = "insert"
    /\ lock = 0
    /\ history' = Inserted(history, tasks[t].msg, tasks[t].sent.val)
    /\ tasks' = [tasks EXCEPT ![t] = Returned(t, Ok("unit"))]
    /\ UNCHANGED <<lock, responses, readies>>
    /\ UNCHANGED <<fmt_vars, ext_vars, menu_vars>>

\* if let Some(response_id) = history.remove(&message_id)
RemoveResult(h, m) == IF m \in DOMAIN h THEN Some(h[m]) ELSE None

\* a slip in line 399: the guard of cx.data.write() is dropped before line 403
ReleasedAfterRemove(t, found) == 0

\* let mut data = cx.data.write() (line 399) lives to the end of the
\* function: with a record the handler is still holding the lock when it
\* calls delete_message, without one it returns and the lock is released
HeldAfterRemove(t, found) == IF found.some THEN t ELSE 0

\* Events::message_delete, lines 399-401: cx.data.write() is taken and the
\* record is removed.  With a record the handler goes on to line 403 holding
\* the lock; without one it returns and the lock is released.
DeleteRemove(t) ==
    /\ tasks[t].kind = "delete" /\ tasks[t].pc = "start"
    /\ lock = 0
    /\ LET found == RemoveResult(history, tasks[t].msg)
           seen == [tasks[t] EXCEPT !.response_id = found,
                                    !.before = Some(history),
                                    !.after = Some(history')] IN
       /\ history' = Removed(history, tasks[t].msg)
       /\ tasks' = [tasks EXCEPT
                       ![t] = IF found.some
                              THEN [seen EXCEPT !.pc = "calling"]
                              ELSE [seen EXCEPT !.pc = "done",
                                                !.returned = Some("unit")]]
       /\ lock' = HeldAfterRemove(t, found)
    /\ UNCHANGED <<responses, readies>>
    /\ UNCHANGED <<fmt_vars, ext_vars, menu_vars>>

\* the calls of delete_message that line 403 makes
DeleteCalls(t) ==
    << [channel |-> tasks[t].channel, id |-> tasks[t].response_id.val] >>

\* a slip in line 403: the ? operator in place of let _ =
Propagated(call) == IF call.ok THEN "unit" ELSE call.err

\* let _ = .. (line 403): the result of the call is dropped
Dropped(call) == "unit"

\* line 403, let _ = channel_id.delete_message(&cx, response_id), and the
\* return of the handler, which releases the lock.  The call deletes the
\* response or fails; the result is dropped.
DeleteMessage(t, succeeds) ==
    /\ tasks[t].kind = "delete" /\ tasks[t].pc = "calling"
    /\ LET call == IF succeeds THEN Ok("unit") ELSE Err("delete") IN
       tasks' = [tasks EXCEPT
                    ![t] = [Returned(t, call) EXCEPT
                               !.calls = tasks[t].calls \o DeleteCalls(t),
                               !.returned = Some(Dropped(call))]]
    /\ responses' = IF succeeds
                    THEN [responses EXCEPT ![tasks[t].response_id.val].alive = FALSE]
                    ELSE responses
    /\ lock' = 0
    /\ UNCHANGED <<history, readies>>
    /\ UNCHANGED <<fmt_vars, ext_vars, menu_vars>>

\* Events::ready, lines 373-377, on a further ready event: the map is
\* replaced by IndexMap::new() under the lock
Ready ==
    /\ readies < MaxReadies
    /\ lock = 0
    /\ history' = <<>>
    /\ readies' = readies + 1
    /\ UNCHANGED <<lock, tasks, responses>>
    /\ UNCHANGED <<fmt_vars, ext_vars, menu_vars>>

\* Events::reaction_add (lines 407-411): welcome::assign_talk_role succeeds
\* or fails; an error is logged; the map is not touched
ReactionAdd(succeeds) ==
    /\ Len(tasks) < MaxEvents
    /\ LET r == IF succeeds THEN Ok("unit") ELSE Err("role") IN
       tasks' = Append(tasks, [NewTask("reaction", "none") EXCEPT
                                  !.pc = "done",
                                  !.result = Some(r),
                                  !.logged = HandlerLogs("reaction", r),
                                  !.returned = Some("unit")])
    /\ UNCHANGED <<history, lock, responses, readies>>
    /\ UNCHANGED <<fmt_vars, ext_vars, menu_vars>>

\* Events::guild_ban_removal (lines 413-417): ban::save_unban succeeds or
\* fails; an error is logged; the map is not touched
GuildBanRemoval(succeeds) ==
    /\ Len(tasks) < MaxEvents
    /\ LET r == IF succeeds THEN Ok("unit") ELSE Err("unban") IN
       tasks' = Append(tasks, [NewTask("ban_removal", "none") EXCEPT
                                  !.pc = "done",
                                  !.result = Some(r),
                                  !.logged = HandlerLogs("ban_removal", r),
                                  !.returned = Some("unit")])
    /\ UNCHANGED <<history, lock, responses, readies>>
    /\ UNCHANGED <<fmt_vars, ext_vars, menu_vars>>

Init ==
    /\ FmtIdle /\ ExtIdle /\ MenuIdle
    /\ EventsIdle

TaskIds == 1 .. Len(tasks)

Next ==
    \/ \E k \in {"message", "update", "delete"}, m \in MessageIds : Arrive(k, m)
    \/ \E t \in TaskIds : NoReply(t)
    \/ \E t \in TaskIds : Lookup(t)
    \/ \E t \in TaskIds, ok \in BOOLEAN : Edit(t, ok)
    \/ \E t \in TaskIds : Say(t)
    \/ \E t \in TaskIds : SayFails(t)
    \/ \E t \in TaskIds : Insert(t)
    \/ \E t \in TaskIds : DeleteRemove(t)
    \/ \E t \in TaskIds, ok \in BOOLEAN : DeleteMessage(t, ok)
    \/ Ready
    \/ \E ok \in BOOLEAN : ReactionAdd(ok)
    \/ \E ok \in BOOLEAN : GuildBanRemoval(ok)

Spec == Init /\ [][Next]_vars

(***************************************************************************)
(* The event handlers with external calls that may never return, and the   *)
(* scheduling of the event tasks.  Each event runs on a thread of its own, *)
(* which the scheduler keeps running while it can take a step, and the     *)
(* lock of cx.data is handed to every thread that keeps asking for it.     *)
(***************************************************************************)

\* the external call of a command's handler (a compiler or lookup service)
\* never returns; the handler has not yet reached send_reply and holds no
\* lock
HandlerHangs(t) ==
    /\ IsDispatch(t) /\ tasks[t].pc = "lookup"
    /\ tasks' = [tasks EXCEPT ![t].pc = "hung"]
    /\ UNCHANGED <<history, lock, responses, readies>>
    /\ UNCHANGED <<fmt_vars, ext_vars, menu_vars>>

\* line 403: channel_id.delete_message(&cx, response_id) never returns; the
\* guard of line 399 is alive, so the lock stays with the handler
DeleteMessageHangs(t) ==
    /\ tasks[t].kind = "delete" /\ tasks[t].pc = "calling"
    /\ tasks' = [tasks EXCEPT ![t].pc = "hung"]
    /\ UNCHANGED <<history, lock, responses, readies>>
    /\ UNCHANGED <<fmt_vars, ext_vars, menu_vars>>

NextLive ==
    \/ Next
    \/ \E t \in TaskIds : HandlerHangs(t)
    \/ \E t \in TaskIds : DeleteMessageHangs(t)

\* a step of the thread of event t in which a call returns
TaskStep(t) ==
    /\ t \in TaskIds
    /\ \/ NoReply(t)
       \/ Lookup(t)
       \/ \E ok \in BOOLEAN : Edit(t, ok)
       \/ Say(t)
       \/ SayFails(t)
       \/ Insert(t)
       \/ DeleteRemove(t)
       \/ \E ok \in BOOLEAN : DeleteMessage(t, ok)

Fairness == \A t \in 1 .. MaxEvents : SF_vars(TaskStep(t))

SpecLive == Init /\ [][NextLive]_vars /\ Fairness

(***************************************************************************)
(* Properties of the formatter, checked under SpecFmt                      *)
(***************************************************************************)

\* C1: whenever reply_potentially_long_text produces a message, the text it
\* passes to send_reply is at most 2000 bytes long, in each of the three
\* branches.
C1_MessageWithinLimit ==
    fmt_pc = "sent" => StrLen(msg) <= DISCORD_LIMIT

\* whether every character of the string takes one byte
SingleUnit(s) == \A i \in 1 .. Len(s) : \A j \in 1 .. Len(s[i].u) : Width(s[i].u[j]) = 1

\* whether the runs of t are the last runs of s
EndsWithRuns(s, t) ==
    Len(t) <= Len(s) /\ SubSeq(s, Len(s) - Len(t) + 1, Len(s)) = t

\* C2: when len(body) + len(closing) > 2000 the output is
\* body[..cut] + closing + marker, cut being the greatest character boundary
\* of body that is <= 2000 - len(closing) - len(marker); for a body of
\* single-byte characters the output is exactly 2000 long and ends with the
\* marker.
C2_LengthCut ==
    (fmt_pc # "call" /\ TooLong(text_body, text_end)) =>
        LET limit == DISCORD_LIMIT - StrLen(text_end) - StrLen(truncation_msg) IN
        /\ fmt_pc = "sent"
        /\ 0 <= cut_off_point /\ cut_off_point <= limit
        /\ IsCharBoundary(text_body, cut_off_point)
        /\ \A d \in (cut_off_point + 1) .. limit : ~IsCharBoundary(text_body, d)
        /\ msg = Slice(text_body, cut_off_point) \o text_end \o truncation_msg
        /\ SingleUnit(text_body) =>
              StrLen(msg) = DISCORD_LIMIT /\ EndsWithRuns(msg, truncation_msg)

\* C3: exactly one branch applies per call; the marker is appended if and
\* only if the body part of the output is shorter than the input body, and
\* without truncation the output is exactly body + closing.
C3_MarkerIffTruncated ==
    fmt_pc = "sent" =>
        /\ branch \in {"length", "lines", "none"}
        /\ (branch = "length") = TooLong(text_body, text_end)
        /\ (branch = "lines") =
              (~TooLong(text_body, text_end) /\ TooManyLines(text_body))
        /\ (branch # "none") = (StrLen(kept) < StrLen(text_body))
        /\ msg = kept \o text_end \o (IF branch # "none" THEN truncation_msg ELSE <<>>)
        /\ StrLen(kept) = StrLen(text_body) => msg = text_body \o text_end

\* C4: the body part of the produced message has at most 45 lines, also when
\* the length branch handled the input.
C4_BodyAtMost45Lines ==
    fmt_pc = "sent" => LinesCount(kept) <= MAX_OUTPUT_LINES

(***************************************************************************)
(* Properties of extract_code, checked under SpecExtract                   *)
(***************************************************************************)
HasWhitespace(s) == \E i \in 1 .. Len(s) : IsWhitespace(s[i])

\* the position (counted in characters) of the first whitespace character
FirstWhitespace(s) ==
    CHOOSE i \in 1 .. Len(s) :
        IsWhitespace(s[i]) /\ \A j \in 1 .. (i - 1) : ~IsWhitespace(s[j])

\* the reference rule as C5 words it, on the trimmed input t: a fence without
\* whitespace falls through to the single-backtick rule
ReferenceAsClaimed(t) ==
    IF StartsWith(t, Fence) /\ EndsWith(t, Fence) /\ HasWhitespace(t)
    THEN Ok(Trim(SubSeq(t, FirstWhitespace(t), Len(t) - 3)))
    ELSE IF StartsWith(t, <<BQ>>) /\ EndsWith(t, <<BQ>>) /\ Len(t) >= 2
    THEN Ok(Trim(SubSeq(t, 2, Len(t) - 1)))
    ELSE Err("MissingCodeblock")

\* the reference rule with the fence deciding alone: a text that starts and
\* ends with a triple backtick and holds no whitespace is MissingCodeblock
ReferenceAmended(t) ==
    IF StartsWith(t, Fence) /\ EndsWith(t, Fence)
    THEN (IF HasWhitespace(t)
          THEN Ok(Trim(SubSeq(t, FirstWhitespace(t), Len(t) - 3)))
          ELSE Err("MissingCodeblock"))
    ELSE IF StartsWith(t, <<BQ>>) /\ EndsWith(t, <<BQ>>) /\ Len(t) >= 2
    THEN Ok(Trim(SubSeq(t, 2, Len(t) - 1)))
    ELSE Err("MissingCodeblock")

\* C5 (as stated): extract_code agrees, for every input, with the reference
\* rule of the claim applied to the trimmed input.
C5_AgreesWithClaimedRule ==
    ext_pc = "done" => extracted = ReferenceAsClaimed(Trim(input))

\* C5 (amended): extract_code agrees, for every input, with the reference
\* rule in which a triple-backtick text without whitespace fails with
\* MissingCodeblock instead of falling through to the single-backtick rule.
C5_AgreesWithAmendedRule ==
    ext_pc = "done" => extracted = ReferenceAmended(Trim(input))

\* ``` rust\nhello\n``` (with "a" for each word) gives rust\nhello
C5_Witness ==
    /\ ext_pc = "done"
    /\ input = Fence \o <<" ", "a", "\n", "a", "\n">> \o Fence
    /\ extracted = Ok(<<"a", "\n", "a">>)

(***************************************************************************)
(* Properties of the menu and of the dispatch, checked under SpecMenu      *)
(***************************************************************************)

\* whether the guard of a help entry allows the requester: an unprotected
\* entry always, a protected one when the role lookup succeeds and the
\* requester holds the mod role
Allowed(e) == e.guard = "always" \/ (store_up[e.cmd] /\ requester_is_mod)

\* whether the listing shows the entry
Listed(e) ==
    \E j \in 1 .. Len(listing.val.entries) :
        listing.val.entries[j] = MenuLine(e.cmd, e.desc)

\* C9: main_menu lists a registered entry if and only if its guard allows
\* the requester; a guard that denies or fails omits the entry without
\* failing the listing, so a requester who is no moderator sees no protected
\* entry and every unprotected one.
C9_ListedIffGuardAllows ==
    (menu_pc = "done" /\ listing.some) =>
        LET menu == Menu(config) IN
        /\ \A i \in 1 .. Len(menu) : Listed(menu[i]) = Allowed(menu[i])
        /\ ~requester_is_mod =>
              \A i \in 1 .. Len(menu) :
                  Listed(menu[i]) = (menu[i].cmd \notin ProtectedNames)

\* a moderator asks for the menu while the role lookup fails for kick only:
\* kick is left out, the other protected entries are listed
C9_Witness ==
    /\ menu_pc = "done" /\ listing.some
    /\ requester_is_mod
    /\ store_up = [c \in ProtectedNames |-> c # "kick"]
    /\ ~Listed(ProtectedEntries[2])
    /\ Listed(ProtectedEntries[1]) /\ Listed(ProtectedEntries[3])
    /\ Listed(CommonEntries[1])

\* the requester's guard for the dispatched protected command did not allow
NotAllowed ==
    /\ menu_pc = "done"
    /\ command \in ProtectedNames
    /\ ~(store_up[command] /\ requester_is_mod)

\* C10 (as stated): a protected command invoked by a user its guard does not
\* allow never runs its handler, and the reply is exactly the
\* MissingPermissions text.
C10_DeniedRepliesMissingPermissions ==
    NotAllowed =>
        /\ ~handler_ran
        /\ reply = Some("You are not allowed to use this command")

\* C10 (amended): the handler never runs; the reply is the
\* MissingPermissions text when the guard denies, and the rendered error of
\* the guard when the guard fails.
C10_DeniedNeverRunsHandler ==
    NotAllowed =>
        /\ ~handler_ran
        /\ store_up[command] =>
              reply = Some("You are not allowed to use this command")
        /\ ~store_up[command] => reply = Some("Unexpected error (..)")

\* kick, invoked by a user who is no moderator, with the role store answering
C10_Witness ==
    /\ NotAllowed
    /\ command = "kick" /\ store_up["kick"] /\ ~requester_is_mod
    /\ ~handler_ran
    /\ reply = Some("You are not allowed to use this command")

(***************************************************************************)
(* Properties of the event handlers, checked under Spec                    *)
(***************************************************************************)
DeleteTasks == { t \in 1 .. Len(tasks) : tasks[t].kind = "delete" }

\* C6: a delete event for a message with a record makes exactly one
\* delete_message call, for the recorded response id in the channel of the
\* event, and removes the record (and nothing else); a delete event for a
\* message without a record makes no call and leaves the map unchanged.
C6_DeleteCascade ==
    \A t \in DeleteTasks :
        tasks[t].pc = "done" =>
            LET m == tasks[t].msg
                b == tasks[t].before.val
                a == tasks[t].after.val IN
            IF m \in DOMAIN b
            THEN /\ tasks[t].calls = << [channel |-> tasks[t].channel, id |-> b[m]] >>
                 /\ DOMAIN a = (DOMAIN b) \ {m}
                 /\ \A k \in DOMAIN a : a[k] = b[k]
            ELSE /\ tasks[t].calls = <<>>
                 /\ a = b

\* a handled delete event that found the record of its message, called
\* delete_message once and left the response deleted and the map without
\* the record
C6_Witness ==
    \E t \in DeleteTasks :
        /\ tasks[t].pc = "done"
        /\ tasks[t].msg \in DOMAIN tasks[t].before.val
        /\ Len(tasks[t].calls) = 1
        /\ ~responses[tasks[t].calls[1].id].alive
        /\ ~Tracked(tasks[t].msg)

\* the responses to m that were sent and not deleted
Outstanding(m) ==
    { r \in 1 .. Len(responses) : responses[r].msg = m /\ responses[r].alive }

\* C7: in every reachable state each invoking message has at most one
\* history record and at most one outstanding (sent and not deleted)
\* response.
C7_AtMostOneResponse ==
    /\ DOMAIN history \subseteq MessageIds
    /\ \A m \in MessageIds : Cardinality(Outstanding(m)) <= 1

\* the responses ever sent for m
SentFor(m) == { r \in 1 .. Len(responses) : responses[r].msg = m }

\* m has a record and no task is between a lookup that found none and the
\* insert of the response it sends
Settled(m) ==
    /\ Tracked(m)
    /\ \A t \in 1 .. Len(tasks) :
          tasks[t].msg = m => tasks[t].pc \notin {"say", "insert"}

\* the step handles a delete event for m
DeleteHandled(m) ==
    \E t \in DeleteTasks :
        tasks[t].msg = m /\ tasks[t].pc = "start" /\ tasks'[t].pc # "start"

\* the step completes the edit_message call of an edit or new-message task for m
EditedBy(t, m) ==
    /\ t <= Len(tasks) /\ tasks[t].msg = m
    /\ tasks[t].pc = "edit" /\ tasks'[t].pc = "done"

\* C8: while an invoking message is tracked, the events handled for it in a
\* row (no delete event for it, no ready event) never send a new response:
\* each edit edits the recorded response in place and the recorded id stays
\* the one of the first send.
C8_EditsKeepResponse ==
    [][ \A m \in MessageIds :
          (Settled(m) /\ ~DeleteHandled(m) /\ readies' = readies) =>
              /\ Settled(m)'
              /\ history'[m] = history[m]
              /\ SentFor(m)' = SentFor(m)
              /\ \A t \in 1 .. Len(tasks) :
                    EditedBy(t, m) => tasks'[t].edited = Some(history[m]) ]_vars

\* m1 was answered once and then edited twice: both edits edited response 1,
\* which is still the recorded one
C8_Witness ==
    /\ Len(tasks) = 3
    /\ tasks[1].kind = "message" /\ tasks[1].msg = "m1" /\ tasks[1].sent = Some(1)
    /\ \A t \in {2, 3} :
          /\ tasks[t].kind = "update" /\ tasks[t].msg = "m1"
          /\ tasks[t].pc = "done" /\ tasks[t].edited = Some(1)
    /\ Tracked("m1") /\ history["m1"] = 1
    /\ Len(responses) = 1

\* C11: a record of the history map stays, with the same response id, until
\* a delete event for its invoking message is handled: no step of any other
\* event (new message, edit, delete of another message, reaction, ban
\* removal, further ready event) removes or changes it.
C11_RecordStaysUntilDelete ==
    [][ \A m \in MessageIds :
          (Tracked(m) /\ ~DeleteHandled(m)) =>
              (Tracked(m)' /\ history'[m] = history[m]) ]_vars

\* the external call of task t never returns
Hung(t) == t \in TaskIds /\ tasks[t].pc = "hung"

\* C12: under fair scheduling, every new-message, edit or delete event
\* completes its processing unless its own external call hangs; a call that
\* hangs while another event (for a different message) is processed does
\* not keep it from completing.
C12_OthersComplete ==
    \A t \in 1 .. MaxEvents :
        (t \in TaskIds /\ ~Hung(t)) ~>
            (t \in TaskIds /\
                \/ tasks[t].pc = "done"
                \/ Hung(t)
                \/ \E o \in TaskIds : Hung(o) /\ tasks[o].msg = tasks[t].msg)

(***************************************************************************)
(* The line branch of the formatter, checked under SpecFmt                 *)
(***************************************************************************)
RECURSIVE UCharAt(_, _)
\* the character of the unit that starts at byte offset k
UCharAt(u, k) == IF k = 0 THEN Head(u) ELSE UCharAt(Tail(u), k - Width(Head(u)))

RECURSIVE CharAt(_, _)
\* the character of s that starts at byte offset k (a boundary below len)
CharAt(s, k) ==
    LET r == Head(s)
        w == ULen(r.u)
        l == r.n * w IN
    IF k >= l THEN CharAt(Tail(s), k - l) ELSE UCharAt(r.u, k % w)

\* whether the text p is the text of s before byte offset len(p)
IsPrefixText(p, s) ==
    /\ StrLen(p) <= StrLen(s)
    /\ \A k \in 0 .. (StrLen(p) - 1) :
          IsCharBoundary(p, k) = IsCharBoundary(s, k)
          /\ (IsCharBoundary(p, k) => CharAt(p, k) = CharAt(s, k))

\* whether p is the first k lines of s joined by "\n", for a text s of more
\* than k lines: the text of s before its k-th "\n"
IsFirstLinesJoined(p, s, k) ==
    /\ IsPrefixText(p, s)
    /\ Newlines(p) = k - 1
    /\ StrLen(p) < StrLen(s) /\ CharAt(s, StrLen(p)) = "\n"

\* C13: when len(body) + len(closing) <= 2000 and body has more than 45
\* lines, the output is the first 45 lines of body joined by single
\* newlines, then the closing, then the marker: exactly 45 content lines
\* precede the closing and the marker.
C13_First45Lines ==
    (fmt_pc = "sent" /\ ~TooLong(text_body, text_end) /\ TooManyLines(text_body)) =>
        /\ branch = "lines"
        /\ IsFirstLinesJoined(kept, text_body, MAX_OUTPUT_LINES)
        /\ Newlines(kept) + 1 = 45
        /\ msg = kept \o text_end \o truncation_msg

\* a body of 46 one-character lines gives 45 lines, the closing fence and
\* the marker
C13_Witness ==
    /\ fmt_pc = "sent"
    /\ text_body = Run(<<"a", "\n">>, 46)
    /\ text_end = CodeFenceEnd /\ truncation_msg = TRUNCATED
    /\ kept = Run(<<"a", "\n">>, 44) \o Lit(<<"a">>)
    /\ msg = Run(<<"a", "\n">>, 44) \o Lit(<<"a">>) \o CodeFenceEnd \o TRUNCATED

(***************************************************************************)
(* The fence without whitespace, checked under SpecExtract                 *)
(***************************************************************************)

\* the trimmed input starts and ends with a triple backtick and holds no
\* whitespace character
FenceWithoutWhitespace(t) ==
    StartsWith(t, Fence) /\ EndsWith(t, Fence) /\ ~HasWhitespace(t)

\* C14: for every trimmed input that starts and ends with a triple backtick
\* and contains no whitespace character, extract_code fails with
\* MissingCodeblock; it does not fall through to the single-backtick rule,
\* although the input also starts and ends with a single backtick.
C14_FenceWithoutWhitespaceFails ==
    (ext_pc = "done" /\ FenceWithoutWhitespace(Trim(input))) =>
        /\ StartsWith(Trim(input), <<BQ>>) /\ EndsWith(Trim(input), <<BQ>>)
        /\ extracted = Err("MissingCodeblock")

\* a tag immediately followed by content and the closing fence, with padding
\* around the whole: the single-backtick rule would have given its interior
C14_Witness ==
    /\ ext_pc = "done"
    /\ input = <<" ">> \o Fence \o <<"a", "e2", "a">> \o Fence \o <<"\n">>
    /\ extracted = Err("MissingCodeblock")
    /\ Get(Trim(input), 1, ULen(Trim(input)) - 1).some

(***************************************************************************)
(* The delete handler's lock and its best effort, the edit handler's       *)
(* errors, checked under Spec                                              *)
(***************************************************************************)

\* the step is one of task t
StepOf(t) == tasks'[t] # tasks[t]

\* the step reads or writes the history map for task o: a lookup of a
\* dispatch, the insert of a sent response, the remove of a delete handler
TouchesMap(o) ==
    \/ tasks[o].pc = "lookup" /\ tasks'[o].pc \in {"edit", "say"}
    \/ tasks[o].pc = "insert" /\ tasks'[o].pc # "insert"
    \/ tasks[o].pc = "start" /\ tasks'[o].pc # "start"

\* C15: the delete handler's read-modify-write is atomic: it starts with
\* the lock free, holds the lock from the lookup and removal of the record
\* to the end of the delete_message call, no step of another event reads or
\* writes the map in between, and the lock is released when the handler
\* returns.
C15_DeleteAtomic ==
    [][ \A t \in DeleteTasks :
          /\ (tasks[t].pc = "start" /\ TouchesMap(t)) => lock = 0
          /\ tasks[t].pc = "calling" =>
                /\ lock = t
                /\ history = tasks[t].after.val
                /\ ~StepOf(t) =>
                      /\ history' = history /\ lock' = t /\ readies' = readies
                      /\ \A o \in 1 .. Len(tasks) : ~TouchesMap(o)
          /\ (tasks[t].pc # "done" /\ tasks'[t].pc = "done") => lock' = 0 ]_vars

\* a delete handler is inside its delete_message call, holding the lock,
\* while the task of another event has sent its reply and waits to record it
C15_Witness ==
    \E t \in DeleteTasks, o \in 1 .. Len(tasks) :
        /\ tasks[t].pc = "calling" /\ lock = t
        /\ tasks[o].pc = "insert" /\ tasks[o].msg # tasks[t].msg

\* the delete_message call of the handled delete event t failed
FailedDelete(t) ==
    tasks[t].pc = "done" /\ tasks[t].result = Some(Err("delete"))

\* C16: when the delete_message call of a delete event fails, the record is
\* removed all the same, the handler returns normally and the call is not
\* made again; a later delete event for the same message, which finds no
\* record, makes no delete_message call.
C16_DeleteBestEffort ==
    [][ \A t \in DeleteTasks :
          /\ (tasks[t].pc = "calling" /\ FailedDelete(t)') =>
                /\ ~Tracked(tasks[t].msg)'
                /\ tasks'[t].returned = Some("unit")
                /\ Len(tasks'[t].calls) = 1
                /\ responses' = responses
                /\ lock' = 0
          /\ \A u \in DeleteTasks :
                (/\ FailedDelete(t) /\ tasks[u].msg = tasks[t].msg
                 /\ ~Tracked(tasks[t].msg)
                 /\ tasks[u].pc = "start" /\ tasks'[u].pc # "start") =>
                    /\ tasks'[u].pc = "done" /\ tasks'[u].calls = <<>>
                    /\ responses' = responses /\ history' = history ]_vars

\* the response to m1 could not be deleted: the record is gone, the response
\* is still there, and a second delete event for m1 made no call
C16_Witness ==
    /\ Len(tasks) = 3
    /\ tasks[2].kind = "delete" /\ tasks[2].msg = "m1" /\ FailedDelete(2)
    /\ Len(tasks[2].calls) = 1 /\ tasks[2].returned = Some("unit")
    /\ tasks[3].kind = "delete" /\ tasks[3].msg = "m1" /\ tasks[3].pc = "done"
    /\ tasks[3].calls = <<>>
    /\ ~Tracked("m1") /\ responses[1].alive

\* the step in which replay_message returns an error to the handler of the
\* edit event t
ReplayFails(t) ==
    /\ tasks[t].kind = "update"
    /\ tasks[t].pc # "done" /\ tasks'[t].pc = "done"
    /\ ~tasks'[t].result.val.ok

\* C17: when replay_message returns an error, message_update logs it and
\* returns normally; the map, the responses and the tasks of all other
\* events are as they were, and the failed task holds no lock.
C17_ReplayErrorContained ==
    [][ \A t \in 1 .. Len(tasks) :
          ReplayFails(t) =>
              /\ tasks'[t].logged
              /\ tasks'[t].returned = Some("unit")
              /\ lock' # t
              /\ history' = history /\ responses' = responses
              /\ \A o \in 1 .. Len(tasks) : o # t => tasks'[o] = tasks[o] ]_vars

\* the edit_message call of the first edit of m1 failed and was logged; the
\* second edit of m1 was handled after it and edited the response
C17_Witness ==
    /\ Len(tasks) = 3
    /\ tasks[2].kind = "update" /\ tasks[2].pc = "done"
    /\ tasks[2].result = Some(Err("edit")) /\ tasks[2].logged
    /\ tasks[2].returned = Some("unit")
    /\ tasks[3].kind = "update" /\ tasks[3].pc = "done"
    /\ tasks[3].result = Some(Ok("unit")) /\ tasks[3].edited = Some(1)
    /\ lock = 0

(***************************************************************************)
(* The order of the help listing, checked under SpecMenu                   *)
(***************************************************************************)

\* the line of the help entry
HelpLine == MenuLine("help", "This menu")

\* the place of a line among the help entries registered at startup
PlaceOf(line) ==
    CHOOSE i \in 1 .. Len(Menu(config)) :
        MenuLine(Menu(config)[i].cmd, Menu(config)[i].desc) = line

\* C18: in every help listing the visible entries appear in the order of
\* their registration (a sub-sequence of it, whatever the guards answer),
\* and exactly one help entry appears, after all of them.
C18_ListingInRegistrationOrder ==
    (menu_pc = "done" /\ listing.some) =>
        LET es == listing.val.entries
            n == Len(es) IN
        /\ n >= 1 /\ es[n] = HelpLine
        /\ \A j \in 1 .. (n - 1) :
              /\ es[j] # HelpLine
              /\ \E i \in 1 .. Len(Menu(config)) :
                    MenuLine(Menu(config)[i].cmd, Menu(config)[i].desc) = es[j]
        /\ \A j, k \in 1 .. (n - 1) : j < k => PlaceOf(es[j]) < PlaceOf(es[k])

\* a moderator's listing with every block registered and the role lookup
\* failing for kick and ban: "slowmode" is followed by "CoC", then "help"
C18_Witness ==
    /\ menu_pc = "done" /\ listing.some
    /\ config = [crates |-> TRUE, eval |-> TRUE]
    /\ requester_is_mod
    /\ store_up = [c \in ProtectedNames |-> c \in {"slowmode", "CoC"}]
    /\ Len(listing.val.entries) = 15
    /\ listing.val.entries[1].cmd = "crate"
    /\ listing.val.entries[13].cmd = "slowmode"
    /\ listing.val.entries[14].cmd = "CoC"
    /\ listing.val.entries[15] = HelpLine

(***************************************************************************)
(* Totality of the formatter, checked under SpecFmt                        *)
(***************************************************************************)

\* C19: the formatter is total: whenever the length branch is taken, the
\* unsigned computation 2000 - len(closing) - len(marker) does not go below
\* zero and the cut-off search ends at an index within body, for every
\* closing and marker, so the call never aborts before sending.
C19_FormatterTotal ==
    fmt_pc # "call" =>
        /\ fmt_pc = "sent"
        /\ TooLong(text_body, text_end) =>
              /\ ~Underflows(text_end, truncation_msg)
              /\ 0 <= cut_off_point
              /\ cut_off_point <= AvailableSpace(text_end, truncation_msg)
              /\ cut_off_point <= StrLen(text_body)

(***************************************************************************)
(* Replies and deletion under every interleaving, checked under Spec       *)
(***************************************************************************)

\* the tasks of the events for m
TasksFor(m) == { t \in 1 .. Len(tasks) : tasks[t].msg = m }

\* a delete event for m has been handled, every event for m has finished,
\* no delete_message call failed and no ready event reset the map
DeletedAndQuiet(m) ==
    /\ \E t \in TasksFor(m) : tasks[t].kind = "delete"
    /\ \A t \in TasksFor(m) : tasks[t].pc = "done"
    /\ \A t \in TasksFor(m) : tasks[t].kind = "delete" => ~FailedDelete(t)
    /\ readies = 0

\* C20: once the delete event for an invoking message has been handled and
\* every dispatch of that message (new message or edit) has finished, the
\* map holds no record for the message and no response to it remains
\* undeleted, also when the delete event was handled while the command's
\* handler was still running and had not yet sent or recorded its reply.
C20_RepliesFollowDeletion ==
    \A m \in MessageIds :
        DeletedAndQuiet(m) => (~Tracked(m) /\ Outstanding(m) = {})

====
